---- MODULE Spec2Model ----
(* A model of the mightrix matrix views: the heap Matrix, the borrowed      *)
(* Reftrix and the stack Stacktrix, under ColumnPrio and RowPrio.           *)
(* Buffers are sequences; a buffer offset o (0-based, as in the source) is  *)
(* the sequence position o + 1.  A panic is a result with ok = FALSE.       *)
EXTENDS Integers, Sequences, FiniteSets, TLC

\* ---------------------------------------------------------------- bounds
MaxDim == 3
MaxCells == 9
MaxOps == 1
\* Calls of next() made after a line view's iterator is exhausted.
ExtraCalls == 2
\* Nested fmt calls followed before the stack is taken to be exhausted.
MaxFmtDepth == 3
\* Width of usize in the model of the constructors' arithmetic.
WordBits == 3

\* The row count written into pretty_print of the column-major matrices.
PrettyPrintRows == 4

Dims == 0..MaxDim
Lens == 0..(MaxCells + 1)
Backends == {"Matrix", "Reftrix", "Stacktrix"}
Prios == {"ColumnPrio", "RowPrio"}

\* The caller's data of length n: element at offset o is o + 1, so that every
\* offset is told apart by its value.
Iota(n) == [i \in 1..n |-> i]
\* The replacement data of a fill of length n: pairwise distinct, and distinct
\* from every initial element.
FillData(n) == [i \in 1..n |-> 100 + i]
InsertValue == 0 - 1
InitValue == 0 - 2

Min(a, b) == IF a <= b THEN a ELSE b

\* ------------------------------------------------------- line views
\* A line view: start offset, stride ("slices" in the source) and length.
\* A contiguous slice is a view of stride 1.
PanicView == [ok |-> FALSE, start |-> 0, slices |-> 0, len |-> 0]
View(start, slices, len) == [ok |-> TRUE, start |-> start, slices |-> slices, len |-> len]

\* &buf[start..start + len]: panics unless the range lies inside the buffer.
SliceRange(buf, start, len) ==
    IF start + len <= Len(buf) THEN View(start, 1, len) ELSE PanicView

\* &buf[idx] taken as the start of a strided view: panics unless idx < len.
ElemRef(buf, idx, slices, len) ==
    IF idx < Len(buf) THEN View(idx, slices, len) ELSE PanicView

\* The strided line types of the const-generic revision (Row, Collumn,
\* IntermittentSlice<R, C, T>): start, stride and length as the data model
\* states them: a row of a column-major matrix has stride R and length C, a
\* column of a row-major matrix has stride C and length R.
ConstRow(buf, row, R, C) == ElemRef(buf, row, R, C)
ConstColumn(buf, col, R, C) == ElemRef(buf, col, C, R)

\* view[index]: a panic result or the addressed offset.
PanicRef == [ok |-> FALSE, off |-> 0]

\* The bounds check lets index = len through.
Index_OffByOne(view, index) ==
    IF ~view.ok THEN PanicRef
    ELSE IF index > view.len THEN PanicRef
    ELSE [ok |-> TRUE, off |-> view.start + index * view.slices]

Index(view, index) ==
    IF ~view.ok THEN PanicRef
    ELSE IF index >= view.len THEN PanicRef
    ELSE [ok |-> TRUE, off |-> view.start + index * view.slices]

\* The offsets visited by iterating a view, in order.
ViewOffsets(view) == [k \in 1..view.len |-> view.start + (k - 1) * view.slices]

\* ------------------------------------------- iterating one strided line view
\* The result of one next(): Some(offset) or None, and the cursor afterwards.
NoneItem == 0 - 1
Step(item, index) == [item |-> item, index |-> index]

\* The cursor advances, the element handed out is the one next to start.
IntermittentSliceIntoItterator_next_Unstrided(row, index) ==
    IF index >= row.len THEN Step(NoneItem, index)
    ELSE Step(row.start + index, index + 1)

\* IntermittentSliceIntoItterator::next with the cursor at index.
IntermittentSliceIntoItterator_next(row, index) ==
    IF index >= row.len THEN Step(NoneItem, index)
    ELSE Step(row.start + index * row.slices, index + 1)

\* IntermittentSliceMutIntoItterator::next with the cursor at index.
IntermittentSliceMutIntoItterator_next(row, index) ==
    IF index >= row.len THEN Step(NoneItem, index)
    ELSE Step(row.start + index * row.slices, index + 1)

RECURSIVE Consume(_, _, _, _)
\* n calls of next() on the iterator of a view, the cursor starting at index:
\* the items in order and the cursor after the last call.
Consume(mutable, row, index, n) ==
    IF n = 0 THEN [items |-> << >>, index |-> index]
    ELSE LET step == IF mutable THEN IntermittentSliceMutIntoItterator_next(row, index)
                     ELSE IntermittentSliceIntoItterator_next(row, index)
             rest == Consume(mutable, row, step.index, n - 1)
         IN [items |-> << step.item >> \o rest.items, index |-> rest.index]

\* ------------------------------------------------- heap Matrix, ColumnPrio
\* A column taken to be cols long instead of rows long.
Matrix_ColumnPrio_get_column_ColsLong(m, col) ==
    IF ~(col < m.cols) THEN PanicView
    ELSE SliceRange(m.inner, col * m.cols, m.cols)

Matrix_ColumnPrio_get_column(m, col) ==
    IF ~(col < m.cols) THEN PanicView
    ELSE SliceRange(m.inner, col * m.rows, m.rows)

Matrix_ColumnPrio_get_mut_column(m, col) ==
    IF ~(col < m.cols) THEN PanicView
    ELSE SliceRange(m.inner, col * m.rows, m.rows)

Matrix_ColumnPrio_get_row(m, row) ==
    IF ~(row < m.rows) THEN PanicView
    ELSE ElemRef(m.inner, row, m.rows, m.cols)

\* The row assertion left out.
Matrix_ColumnPrio_get_mut_row_NoAssert(m, row) == ElemRef(m.inner, row, m.rows, m.cols)

Matrix_ColumnPrio_get_mut_row(m, row) ==
    IF ~(row < m.rows) THEN PanicView
    ELSE ElemRef(m.inner, row, m.rows, m.cols)

Matrix_ColumnPrio_get(m, row, col) == Index(Matrix_ColumnPrio_get_column(m, col), row)

Matrix_ColumnPrio_get_mut(m, row, col) == Index(Matrix_ColumnPrio_get_mut_column(m, col), row)

\* ---------------------------------------------------- heap Matrix, RowPrio
Matrix_RowPrio_get_column(m, col) ==
    IF ~(col < m.cols) THEN PanicView
    ELSE ElemRef(m.inner, col, m.rows, m.cols)

Matrix_RowPrio_get_mut_column(m, col) ==
    IF ~(col < m.cols) THEN PanicView
    ELSE ElemRef(m.inner, col, m.cols, m.rows)

Matrix_RowPrio_get_row(m, row) ==
    IF ~(row < m.rows) THEN PanicView
    ELSE SliceRange(m.inner, row * m.cols, m.cols)

Matrix_RowPrio_get_mut_row(m, row) ==
    IF ~(row < m.rows) THEN PanicView
    ELSE SliceRange(m.inner, row * m.cols, m.cols)

Matrix_RowPrio_get(m, row, col) == Index(Matrix_RowPrio_get_row(m, row), col)

Matrix_RowPrio_get_mut(m, row, col) == Index(Matrix_RowPrio_get_mut_row(m, row), col)

\* --------------------------------------------------- Stacktrix, ColumnPrio
Stacktrix_ColumnPrio_get_column(m, col) ==
    IF ~(col < m.cols) THEN PanicView
    ELSE SliceRange(m.inner, col * m.cols, m.cols)

Stacktrix_ColumnPrio_get_mut_column(m, col) ==
    IF ~(col < m.cols) THEN PanicView
    ELSE SliceRange(m.inner, col * m.cols, m.cols)

Stacktrix_ColumnPrio_get_row(m, row) ==
    IF ~(row < m.rows) THEN PanicView
    ELSE ConstRow(m.inner, row, m.rows, m.cols)

Stacktrix_ColumnPrio_get_mut_row(m, row) ==
    IF ~(row < m.rows) THEN PanicView
    ELSE ConstRow(m.inner, row, m.rows, m.cols)

Stacktrix_ColumnPrio_get(m, row, col) == Index(Stacktrix_ColumnPrio_get_column(m, col), row)

Stacktrix_ColumnPrio_get_mut(m, row, col) ==
    Index(Stacktrix_ColumnPrio_get_mut_column(m, col), row)

\* ------------------------------------------------------ Stacktrix, RowPrio
Stacktrix_RowPrio_get_column(m, col) ==
    IF ~(col < m.cols) THEN PanicView
    ELSE ConstColumn(m.inner, col, m.rows, m.cols)

Stacktrix_RowPrio_get_mut_column(m, col) ==
    IF ~(col < m.cols) THEN PanicView
    ELSE ConstColumn(m.inner, col, m.rows, m.cols)

Stacktrix_RowPrio_get_row(m, row) ==
    IF ~(row < m.rows) THEN PanicView
    ELSE SliceRange(m.inner, row * m.cols, m.cols)

Stacktrix_RowPrio_get_mut_row(m, row) ==
    IF ~(row < m.rows) THEN PanicView
    ELSE SliceRange(m.inner, row * m.cols, m.cols)

Stacktrix_RowPrio_get(m, row, col) == Index(Stacktrix_RowPrio_get_row(m, row), col)

Stacktrix_RowPrio_get_mut(m, row, col) == Index(Stacktrix_RowPrio_get_mut_row(m, row), col)

\* ----------------------------------------------------- Reftrix, CollumPrio
Reftrix_CollumPrio_get_collumn(m, col) ==
    IF ~(col < m.cols) THEN PanicView
    ELSE SliceRange(m.inner, col * m.rows, m.rows)

Reftrix_CollumPrio_get_mut_collumn(m, col) ==
    IF ~(col < m.cols) THEN PanicView
    ELSE SliceRange(m.inner, col * m.rows, m.rows)

Reftrix_CollumPrio_get_row(m, row) ==
    IF ~(row < m.rows) THEN PanicView
    ELSE ConstRow(m.inner, row, m.rows, m.cols)

Reftrix_CollumPrio_get_mut_row(m, row) ==
    IF ~(row < m.rows) THEN PanicView
    ELSE ConstRow(m.inner, row, m.rows, m.cols)

Reftrix_CollumPrio_get(m, row, col) == Index(Reftrix_CollumPrio_get_collumn(m, col), row)

Reftrix_CollumPrio_get_mut(m, row, col) ==
    Index(Reftrix_CollumPrio_get_mut_collumn(m, col), row)

\* -------------------------------------------------------- Reftrix, RowPrio
Reftrix_RowPrio_get_collumn(m, col) ==
    IF ~(col < m.cols) THEN PanicView
    ELSE ConstColumn(m.inner, col, m.rows, m.cols)

Reftrix_RowPrio_get_mut_collumn(m, col) ==
    IF ~(col < m.cols) THEN PanicView
    ELSE ConstColumn(m.inner, col, m.rows, m.cols)

Reftrix_RowPrio_get_row(m, row) ==
    IF ~(row < m.rows) THEN PanicView
    ELSE SliceRange(m.inner, row * m.cols, m.cols)

Reftrix_RowPrio_get_mut_row(m, row) ==
    IF ~(row < m.rows) THEN PanicView
    ELSE SliceRange(m.inner, row * m.cols, m.cols)

Reftrix_RowPrio_get(m, row, col) == Index(Reftrix_RowPrio_get_row(m, row), col)

Reftrix_RowPrio_get_mut(m, row, col) == Index(Reftrix_RowPrio_get_mut_row(m, row), col)

\* ------------------------------------------------------------ buffer writes
PanicBuf(buf) == [ok |-> FALSE, inner |-> buf]
OkBuf(buf) == [ok |-> TRUE, inner |-> buf]

\* *ref = value for a reference obtained by indexing.
WriteRef(buf, ref, value) ==
    IF ~ref.ok THEN PanicBuf(buf)
    ELSE OkBuf([i \in 1..Len(buf) |-> IF i = ref.off + 1 THEN value ELSE buf[i]])

\* slice.clone_from_slice(data) / slice.copy_from_slice(data): panics unless
\* the two lengths are equal, before any element is written.
CopyFromSlice(buf, view, data) ==
    IF ~view.ok THEN PanicBuf(buf)
    ELSE IF view.len # Len(data) THEN PanicBuf(buf)
    ELSE OkBuf([i \in 1..Len(buf) |->
            IF i - 1 >= view.start /\ i - 1 < view.start + view.len
            THEN data[i - view.start] ELSE buf[i]])

\* for (dst, src) in view.into_iter().zip(data.iter()) { *dst = src }:
\* the k-th element of the view receives data[k] while both last.
ZipWrite(buf, view, data) ==
    IF ~view.ok THEN PanicBuf(buf)
    ELSE LET n == Min(view.len, Len(data))
             offs == ViewOffsets(view)
             Hits(i) == {k \in 1..n : offs[k] = i - 1}
         IN OkBuf([i \in 1..Len(buf) |->
                IF Hits(i) # {} THEN data[CHOOSE k \in Hits(i) : \A j \in Hits(i) : j <= k]
                ELSE buf[i]])

\* ------------------------------------------------------------ fill_row / fill_col
Matrix_ColumnPrio_fill_col(m, col, data) ==
    IF Len(data) # m.rows THEN PanicBuf(m.inner)
    ELSE CopyFromSlice(m.inner, SliceRange(m.inner, col * m.rows, m.rows), data)

Matrix_ColumnPrio_fill_row(m, row, data) ==
    IF Len(data) # m.cols THEN PanicBuf(m.inner)
    ELSE ZipWrite(m.inner, Matrix_ColumnPrio_get_mut_row(m, row), data)

Matrix_RowPrio_fill_row(m, row, data) ==
    IF Len(data) # m.cols THEN PanicBuf(m.inner)
    ELSE CopyFromSlice(m.inner, SliceRange(m.inner, row * m.cols, m.cols), data)

Matrix_RowPrio_fill_col(m, col, data) ==
    IF Len(data) # m.rows THEN PanicBuf(m.inner)
    ELSE ZipWrite(m.inner, Matrix_RowPrio_get_mut_column(m, col), data)

Stacktrix_ColumnPrio_fill_col(m, col, data) ==
    IF Len(data) # m.cols THEN PanicBuf(m.inner)
    ELSE CopyFromSlice(m.inner, SliceRange(m.inner, col * m.cols, m.cols), data)

Stacktrix_ColumnPrio_fill_row(m, row, data) ==
    IF Len(data) # m.rows THEN PanicBuf(m.inner)
    ELSE ZipWrite(m.inner, Stacktrix_ColumnPrio_get_mut_row(m, row), data)

Stacktrix_RowPrio_fill_col(m, col, data) ==
    IF Len(data) # m.rows THEN PanicBuf(m.inner)
    ELSE ZipWrite(m.inner, Stacktrix_RowPrio_get_mut_column(m, col), data)

Stacktrix_RowPrio_fill_row(m, row, data) ==
    IF Len(data) # m.cols THEN PanicBuf(m.inner)
    ELSE CopyFromSlice(m.inner, SliceRange(m.inner, row * m.cols, m.cols), data)

Reftrix_CollumPrio_fill_col(m, col, data) ==
    IF Len(data) # m.rows THEN PanicBuf(m.inner)
    ELSE CopyFromSlice(m.inner, SliceRange(m.inner, col * m.cols, m.cols), data)

Reftrix_CollumPrio_fill_row(m, row, data) ==
    IF Len(data) # m.cols THEN PanicBuf(m.inner)
    ELSE ZipWrite(m.inner, Reftrix_CollumPrio_get_mut_row(m, row), data)

Reftrix_RowPrio_fill_row(m, row, data) ==
    IF Len(data) # m.cols THEN PanicBuf(m.inner)
    ELSE IF ~(row < m.rows) THEN PanicBuf(m.inner)
    ELSE CopyFromSlice(m.inner, SliceRange(m.inner, row * m.cols, m.cols), data)

Reftrix_RowPrio_fill_col(m, col, data) ==
    IF Len(data) # m.rows THEN PanicBuf(m.inner)
    ELSE IF ~(col < m.cols) THEN PanicBuf(m.inner)
    ELSE ZipWrite(m.inner, Reftrix_RowPrio_get_mut_collumn(m, col), data)

\* --------------------------------------------------------------------- insert
Matrix_ColumnPrio_insert(m, row, col, value) ==
    WriteRef(m.inner, Index(Matrix_ColumnPrio_get_mut_column(m, col), row), value)

Matrix_RowPrio_insert(m, row, col, value) ==
    WriteRef(m.inner, Index(Matrix_RowPrio_get_mut_row(m, row), col), value)

Stacktrix_ColumnPrio_insert(m, row, col, value) ==
    WriteRef(m.inner, Index(Stacktrix_ColumnPrio_get_mut_column(m, col), row), value)

Stacktrix_RowPrio_insert(m, row, col, value) ==
    WriteRef(m.inner, Index(Stacktrix_RowPrio_get_mut_row(m, row), col), value)

Reftrix_CollumPrio_insert(m, row, col, value) ==
    WriteRef(m.inner, Index(Reftrix_CollumPrio_get_mut_collumn(m, col), row), value)

Reftrix_RowPrio_insert(m, row, col, value) ==
    WriteRef(m.inner, Index(Reftrix_RowPrio_get_mut_row(m, row), col), value)

\* ------------------------------------------------------------------ apply_all
Funcs == {"identity", "double"}
ApplyFn(f, x) == IF f = "double" THEN 2 * x ELSE x

RECURSIVE iter_mut_for_each(_, _, _)
\* for el in buf.iter_mut() { f(el) } from offset i on: the buffer it leaves and
\* the offsets it handed to f, in order.
iter_mut_for_each(buf, f, i) ==
    IF i >= Len(buf) THEN [inner |-> buf, order |-> << >>]
    ELSE LET rest == iter_mut_for_each([buf EXCEPT ![i + 1] = ApplyFn(f, buf[i + 1])], f, i + 1)
         IN [inner |-> rest.inner, order |-> << i >> \o rest.order]

\* The loop stops one element early.
apply_all_SkipsLast(m, f) ==
    [i \in 1..Len(m.inner) |-> IF i = Len(m.inner) THEN m.inner[i] ELSE ApplyFn(f, m.inner[i])]

\* for el in self.inner.iter_mut() { f(el) }
apply_all(m, f) == iter_mut_for_each(m.inner, f, 0).inner

\* --------------------------------------------------------------- constructors
NoMatrix == [ok |-> FALSE, inner |-> << >>, rows |-> 0, cols |-> 0]
Built(buf, r, c) == [ok |-> TRUE, inner |-> buf, rows |-> r, cols |-> c]

\* The buffer sized rows + cols instead of rows * cols.
Matrix_new_SumSized(init, r, c) == Built([i \in 1..(r + c) |-> init], r, c)

Matrix_new(init, r, c) == Built([i \in 1..(r * c) |-> init], r, c)

\* Only data that is too short is rejected.
Matrix_from_values_AcceptsLonger(r, c, values) ==
    IF r * c > Len(values) THEN NoMatrix
    ELSE Built([i \in 1..Len(values) |-> values[i]], r, c)

Matrix_from_values(r, c, values) ==
    IF r * c # Len(values) THEN NoMatrix
    ELSE Built([i \in 1..Len(values) |-> values[i]], r, c)

Reftrix_from_values(R, C, values) ==
    IF ~(Len(values) = R * C) THEN NoMatrix
    ELSE Built(values, R, C)

Stacktrix_with_values(S, R, C, values) ==
    IF ~(S = R * C) THEN NoMatrix
    ELSE Built(values, R, C)

\* The assertion S == R * C left out.
Stacktrix_from_values_NoSizeAssert(S, R, C, values) ==
    IF ~(Len(values) = R * C) THEN NoMatrix
    ELSE Built(values, R, C)

Stacktrix_from_values(S, R, C, values) ==
    IF ~(Len(values) = R * C) THEN NoMatrix
    ELSE IF ~(S = R * C) THEN NoMatrix
    ELSE Built([i \in 1..S |-> values[i]], R, C)

\* ------------------------------------------------------- swap on a strided view
\* The element at a receives the element at b, the element at b is left as it was.
swap_CopiesOnly(buf, view, a, b) ==
    LET ra == Index(view, a)
        rb == Index(view, b)
    IN IF ~ra.ok \/ ~rb.ok THEN PanicBuf(buf)
       ELSE OkBuf([i \in 1..Len(buf) |-> IF i = ra.off + 1 THEN buf[rb.off + 1] ELSE buf[i]])

\* IntermittentSliceMut::swap(a, b): both index_mut calls check their index, then
\* the two elements are exchanged.
swap(buf, view, a, b) ==
    LET ra == Index(view, a)
        rb == Index(view, b)
    IN IF ~ra.ok \/ ~rb.ok THEN PanicBuf(buf)
       ELSE OkBuf([i \in 1..Len(buf) |->
               IF i = ra.off + 1 THEN buf[rb.off + 1]
               ELSE IF i = rb.off + 1 THEN buf[ra.off + 1]
               ELSE buf[i]])

\* ------------------------------------------------------------- line iterators
\* The run of an iterator: the views next() returns until it returns None, and
\* whether a call of next() panicked or the iterator never ends.
Run(views, panicked, diverges) == [views |-> views, panicked |-> panicked, diverges |-> diverges]

RECURSIVE IterMutIntermittentSlices_next(_, _, _, _)
\* IterMutIntermittentSlices from slice_index on: None once slice_index >= slices,
\* else the view starting at &mut matrix_buffer[slice_index].
IterMutIntermittentSlices_next(buf, slices, len, slice_index) ==
    IF slice_index >= slices THEN Run(<< >>, FALSE, FALSE)
    ELSE LET row == ElemRef(buf, slice_index, slices, len) IN
         IF ~row.ok THEN Run(<< >>, TRUE, FALSE)
         ELSE LET rest == IterMutIntermittentSlices_next(buf, slices, len, slice_index + 1)
              IN Run(<< row >> \o rest.views, rest.panicked, rest.diverges)

RECURSIVE IterSlicesMut_next(_, _, _)
\* IterSlicesMut over the buffer from offset pos on: None once the rest is empty,
\* else split_at_mut(len), which panics when len exceeds the rest.
IterSlicesMut_next(buf, len, pos) ==
    IF Len(buf) - pos = 0 THEN Run(<< >>, FALSE, FALSE)
    ELSE IF len > Len(buf) - pos THEN Run(<< >>, TRUE, FALSE)
    ELSE IF len = 0 THEN Run(<< >>, FALSE, TRUE)
    ELSE LET rest == IterSlicesMut_next(buf, len, pos + len)
         IN Run(<< View(pos, 1, len) >> \o rest.views, rest.panicked, rest.diverges)

RECURSIVE IterIntermittentSlices_next(_, _, _, _)
\* IterIntermittentSlices from slice_index on: None once slice_index >= slices,
\* else the view starting at &matrix_buffer[slice_index].
IterIntermittentSlices_next(buf, slices, len, slice_index) ==
    IF slice_index >= slices THEN Run(<< >>, FALSE, FALSE)
    ELSE LET r == ElemRef(buf, slice_index, slices, len) IN
         IF ~r.ok THEN Run(<< >>, TRUE, FALSE)
         ELSE LET rest == IterIntermittentSlices_next(buf, slices, len, slice_index + 1)
              IN Run(<< r >> \o rest.views, rest.panicked, rest.diverges)

RECURSIVE IterSlices_next(_, _, _)
\* IterSlices over the buffer from offset pos on: None once the rest is empty,
\* else split_at(len), which panics when len exceeds the rest.
IterSlices_next(buf, len, pos) ==
    IF Len(buf) - pos = 0 THEN Run(<< >>, FALSE, FALSE)
    ELSE IF len > Len(buf) - pos THEN Run(<< >>, TRUE, FALSE)
    ELSE IF len = 0 THEN Run(<< >>, FALSE, TRUE)
    ELSE LET rest == IterSlices_next(buf, len, pos + len)
         IN Run(<< View(pos, 1, len) >> \o rest.views, rest.panicked, rest.diverges)

Matrix_ColumnPrio_rows(m) == IterIntermittentSlices_next(m.inner, m.rows, m.cols, 0)
Matrix_ColumnPrio_cols(m) == IterSlices_next(m.inner, m.rows, 0)
Matrix_RowPrio_rows(m) == IterSlices_next(m.inner, m.cols, 0)

\* The strided iterator counting rows where it should count columns.
Matrix_RowPrio_cols_PerRow(m) == IterIntermittentSlices_next(m.inner, m.rows, m.cols, 0)

Matrix_RowPrio_cols(m) == IterIntermittentSlices_next(m.inner, m.cols, m.rows, 0)

\* The strided iterator yielding views as long as the matrix has rows.
Matrix_ColumnPrio_rows_mut_RowsLong(m) ==
    IterMutIntermittentSlices_next(m.inner, m.rows, m.rows, 0)

Matrix_ColumnPrio_rows_mut(m) == IterMutIntermittentSlices_next(m.inner, m.rows, m.cols, 0)
\* The contiguous iterator cutting the buffer into pieces as long as the matrix
\* has columns.
Matrix_ColumnPrio_cols_mut_ColsLong(m) == IterSlicesMut_next(m.inner, m.cols, 0)

Matrix_ColumnPrio_cols_mut(m) == IterSlicesMut_next(m.inner, m.rows, 0)
Matrix_RowPrio_rows_mut(m) == IterSlicesMut_next(m.inner, m.cols, 0)
Matrix_RowPrio_cols_mut(m) == IterMutIntermittentSlices_next(m.inner, m.cols, m.rows, 0)

\* The mutable iterators of the const-generic backends (their iterator types
\* are those of the const-generic revision): every row, or every column, in
\* ascending order, strided on the foreign axis and contiguous on the native one.
Const_rows_mut(p, m) ==
    IF p = "ColumnPrio" THEN IterMutIntermittentSlices_next(m.inner, m.rows, m.cols, 0)
    ELSE IterSlicesMut_next(m.inner, m.cols, 0)
Const_cols_mut(p, m) ==
    IF p = "ColumnPrio" THEN IterSlicesMut_next(m.inner, m.rows, 0)
    ELSE IterMutIntermittentSlices_next(m.inner, m.cols, m.rows, 0)

\* The immutable iterators of the const-generic backends, likewise.
Const_rows(p, m) ==
    IF p = "ColumnPrio" THEN IterIntermittentSlices_next(m.inner, m.rows, m.cols, 0)
    ELSE IterSlices_next(m.inner, m.cols, 0)
Const_cols(p, m) ==
    IF p = "ColumnPrio" THEN IterSlices_next(m.inner, m.rows, 0)
    ELSE IterIntermittentSlices_next(m.inner, m.cols, m.rows, 0)

\* for (i, el) in view.into_iter().enumerate() { *el += i }: the k-th element
\* of the view grows by k.
RECURSIVE EnumerateAdd(_, _, _)
EnumerateAdd(buf, view, index) ==
    IF index >= view.len THEN buf
    ELSE LET off == view.start + index * view.slices IN
         IF off >= Len(buf) THEN buf
         ELSE EnumerateAdd([buf EXCEPT ![off + 1] = buf[off + 1] + index], view, index + 1)

\* for line in views { ... }: the loop body applied to each yielded view in turn.
RECURSIVE ForEachLine(_, _, _)
ForEachLine(buf, views, n) ==
    IF n > Len(views) THEN buf
    ELSE ForEachLine(EnumerateAdd(buf, views[n], 0), views, n + 1)

\* ------------------------------------------------ dispatch on backend and layout
Kind(b, p) == << b, p >>

get_column(b, p, m, col) ==
    CASE Kind(b, p) = << "Matrix", "ColumnPrio" >> -> Matrix_ColumnPrio_get_column(m, col)
      [] Kind(b, p) = << "Matrix", "RowPrio" >> -> Matrix_RowPrio_get_column(m, col)
      [] Kind(b, p) = << "Stacktrix", "ColumnPrio" >> -> Stacktrix_ColumnPrio_get_column(m, col)
      [] Kind(b, p) = << "Stacktrix", "RowPrio" >> -> Stacktrix_RowPrio_get_column(m, col)
      [] Kind(b, p) = << "Reftrix", "ColumnPrio" >> -> Reftrix_CollumPrio_get_collumn(m, col)
      [] Kind(b, p) = << "Reftrix", "RowPrio" >> -> Reftrix_RowPrio_get_collumn(m, col)

get_mut_column(b, p, m, col) ==
    CASE Kind(b, p) = << "Matrix", "ColumnPrio" >> -> Matrix_ColumnPrio_get_mut_column(m, col)
      [] Kind(b, p) = << "Matrix", "RowPrio" >> -> Matrix_RowPrio_get_mut_column(m, col)
      [] Kind(b, p) = << "Stacktrix", "ColumnPrio" >> -> Stacktrix_ColumnPrio_get_mut_column(m, col)
      [] Kind(b, p) = << "Stacktrix", "RowPrio" >> -> Stacktrix_RowPrio_get_mut_column(m, col)
      [] Kind(b, p) = << "Reftrix", "ColumnPrio" >> -> Reftrix_CollumPrio_get_mut_collumn(m, col)
      [] Kind(b, p) = << "Reftrix", "RowPrio" >> -> Reftrix_RowPrio_get_mut_collumn(m, col)

get_row(b, p, m, row) ==
    CASE Kind(b, p) = << "Matrix", "ColumnPrio" >> -> Matrix_ColumnPrio_get_row(m, row)
      [] Kind(b, p) = << "Matrix", "RowPrio" >> -> Matrix_RowPrio_get_row(m, row)
      [] Kind(b, p) = << "Stacktrix", "ColumnPrio" >> -> Stacktrix_ColumnPrio_get_row(m, row)
      [] Kind(b, p) = << "Stacktrix", "RowPrio" >> -> Stacktrix_RowPrio_get_row(m, row)
      [] Kind(b, p) = << "Reftrix", "ColumnPrio" >> -> Reftrix_CollumPrio_get_row(m, row)
      [] Kind(b, p) = << "Reftrix", "RowPrio" >> -> Reftrix_RowPrio_get_row(m, row)

get_mut_row(b, p, m, row) ==
    CASE Kind(b, p) = << "Matrix", "ColumnPrio" >> -> Matrix_ColumnPrio_get_mut_row(m, row)
      [] Kind(b, p) = << "Matrix", "RowPrio" >> -> Matrix_RowPrio_get_mut_row(m, row)
      [] Kind(b, p) = << "Stacktrix", "ColumnPrio" >> -> Stacktrix_ColumnPrio_get_mut_row(m, row)
      [] Kind(b, p) = << "Stacktrix", "RowPrio" >> -> Stacktrix_RowPrio_get_mut_row(m, row)
      [] Kind(b, p) = << "Reftrix", "ColumnPrio" >> -> Reftrix_CollumPrio_get_mut_row(m, row)
      [] Kind(b, p) = << "Reftrix", "RowPrio" >> -> Reftrix_RowPrio_get_mut_row(m, row)

get(b, p, m, row, col) ==
    CASE Kind(b, p) = << "Matrix", "ColumnPrio" >> -> Matrix_ColumnPrio_get(m, row, col)
      [] Kind(b, p) = << "Matrix", "RowPrio" >> -> Matrix_RowPrio_get(m, row, col)
      [] Kind(b, p) = << "Stacktrix", "ColumnPrio" >> -> Stacktrix_ColumnPrio_get(m, row, col)
      [] Kind(b, p) = << "Stacktrix", "RowPrio" >> -> Stacktrix_RowPrio_get(m, row, col)
      [] Kind(b, p) = << "Reftrix", "ColumnPrio" >> -> Reftrix_CollumPrio_get(m, row, col)
      [] Kind(b, p) = << "Reftrix", "RowPrio" >> -> Reftrix_RowPrio_get(m, row, col)

get_mut(b, p, m, row, col) ==
    CASE Kind(b, p) = << "Matrix", "ColumnPrio" >> -> Matrix_ColumnPrio_get_mut(m, row, col)
      [] Kind(b, p) = << "Matrix", "RowPrio" >> -> Matrix_RowPrio_get_mut(m, row, col)
      [] Kind(b, p) = << "Stacktrix", "ColumnPrio" >> -> Stacktrix_ColumnPrio_get_mut(m, row, col)
      [] Kind(b, p) = << "Stacktrix", "RowPrio" >> -> Stacktrix_RowPrio_get_mut(m, row, col)
      [] Kind(b, p) = << "Reftrix", "ColumnPrio" >> -> Reftrix_CollumPrio_get_mut(m, row, col)
      [] Kind(b, p) = << "Reftrix", "RowPrio" >> -> Reftrix_RowPrio_get_mut(m, row, col)

insert(b, p, m, row, col, value) ==
    CASE Kind(b, p) = << "Matrix", "ColumnPrio" >> -> Matrix_ColumnPrio_insert(m, row, col, value)
      [] Kind(b, p) = << "Matrix", "RowPrio" >> -> Matrix_RowPrio_insert(m, row, col, value)
      [] Kind(b, p) = << "Stacktrix", "ColumnPrio" >> ->
            Stacktrix_ColumnPrio_insert(m, row, col, value)
      [] Kind(b, p) = << "Stacktrix", "RowPrio" >> -> Stacktrix_RowPrio_insert(m, row, col, value)
      [] Kind(b, p) = << "Reftrix", "ColumnPrio" >> ->
            Reftrix_CollumPrio_insert(m, row, col, value)
      [] Kind(b, p) = << "Reftrix", "RowPrio" >> -> Reftrix_RowPrio_insert(m, row, col, value)

fill_row(b, p, m, row, values) ==
    CASE Kind(b, p) = << "Matrix", "ColumnPrio" >> -> Matrix_ColumnPrio_fill_row(m, row, values)
      [] Kind(b, p) = << "Matrix", "RowPrio" >> -> Matrix_RowPrio_fill_row(m, row, values)
      [] Kind(b, p) = << "Stacktrix", "ColumnPrio" >> ->
            Stacktrix_ColumnPrio_fill_row(m, row, values)
      [] Kind(b, p) = << "Stacktrix", "RowPrio" >> -> Stacktrix_RowPrio_fill_row(m, row, values)
      [] Kind(b, p) = << "Reftrix", "ColumnPrio" >> -> Reftrix_CollumPrio_fill_row(m, row, values)
      [] Kind(b, p) = << "Reftrix", "RowPrio" >> -> Reftrix_RowPrio_fill_row(m, row, values)

fill_col(b, p, m, col, values) ==
    CASE Kind(b, p) = << "Matrix", "ColumnPrio" >> -> Matrix_ColumnPrio_fill_col(m, col, values)
      [] Kind(b, p) = << "Matrix", "RowPrio" >> -> Matrix_RowPrio_fill_col(m, col, values)
      [] Kind(b, p) = << "Stacktrix", "ColumnPrio" >> ->
            Stacktrix_ColumnPrio_fill_col(m, col, values)
      [] Kind(b, p) = << "Stacktrix", "RowPrio" >> -> Stacktrix_RowPrio_fill_col(m, col, values)
      [] Kind(b, p) = << "Reftrix", "ColumnPrio" >> -> Reftrix_CollumPrio_fill_col(m, col, values)
      [] Kind(b, p) = << "Reftrix", "RowPrio" >> -> Reftrix_RowPrio_fill_col(m, col, values)

rows_mut(b, p, m) ==
    CASE Kind(b, p) = << "Matrix", "ColumnPrio" >> -> Matrix_ColumnPrio_rows_mut(m)
      [] Kind(b, p) = << "Matrix", "RowPrio" >> -> Matrix_RowPrio_rows_mut(m)
      [] OTHER -> Const_rows_mut(p, m)

cols_mut(b, p, m) ==
    CASE Kind(b, p) = << "Matrix", "ColumnPrio" >> -> Matrix_ColumnPrio_cols_mut(m)
      [] Kind(b, p) = << "Matrix", "RowPrio" >> -> Matrix_RowPrio_cols_mut(m)
      [] OTHER -> Const_cols_mut(p, m)

iter_rows(b, p, m) ==
    CASE Kind(b, p) = << "Matrix", "ColumnPrio" >> -> Matrix_ColumnPrio_rows(m)
      [] Kind(b, p) = << "Matrix", "RowPrio" >> -> Matrix_RowPrio_rows(m)
      [] OTHER -> Const_rows(p, m)

iter_cols(b, p, m) ==
    CASE Kind(b, p) = << "Matrix", "ColumnPrio" >> -> Matrix_ColumnPrio_cols(m)
      [] Kind(b, p) = << "Matrix", "RowPrio" >> -> Matrix_RowPrio_cols(m)
      [] OTHER -> Const_cols(p, m)

\* --------------------------------------------------------------- pretty_print
\* What pretty_print renders: one view per printed line, or a panic.
Printed(lines) == [ok |-> TRUE, lines |-> lines]
PrintPanic == [ok |-> FALSE, lines |-> << >>]

\* pretty_print of the column-major matrices (the same body in the three
\* backends): (0..4).map(|i| self.get_row(i)...) collected, then printed.
pretty_print_ColumnPrio(b, m) ==
    LET got == [i \in 1..PrettyPrintRows |-> get_row(b, "ColumnPrio", m, i - 1)]
    IN IF \E i \in 1..PrettyPrintRows : ~got[i].ok THEN PrintPanic
       ELSE Printed(got)

\* pretty_print of the row-major matrices: for _ in 0..rows, for i in 0..cols,
\* strings[index], index counting up from 0.
pretty_print_RowPrio(m) ==
    IF m.rows * m.cols > Len(m.inner) THEN PrintPanic
    ELSE Printed([r \in 1..m.rows |-> View((r - 1) * m.cols, 1, m.cols)])

pretty_print(b, p, m) ==
    IF p = "ColumnPrio" THEN pretty_print_ColumnPrio(b, m) ELSE pretty_print_RowPrio(m)

\* ------------------------------------------------------- usize arithmetic
Word == 2 ^ WordBits
Profiles == {"debug", "release"}

\* rows * cols on usize: with overflow checks (the debug profile) a product
\* beyond the word panics, without them (the release profile) it wraps.
usize_mul(profile, a, b) ==
    IF a * b < Word THEN [ok |-> TRUE, value |-> a * b]
    ELSE IF profile = "debug" THEN [ok |-> FALSE, value |-> 0]
    ELSE [ok |-> TRUE, value |-> (a * b) % Word]

\* The outcome of a constructor: "panic", "err" or "ok" with the matrix.
Outcome(result, mx) == [result |-> result, mx |-> mx]

\* Matrix::new on usize: vec![init; rows * cols].
Matrix_new_usize(profile, init, r, c) ==
    LET n == usize_mul(profile, r, c)
    IN IF ~n.ok THEN Outcome("panic", NoMatrix)
       ELSE Outcome("ok", Built([i \in 1..n.value |-> init], r, c))

\* Matrix::from_values on usize: if rows * cols != data.len() { return Err }.
Matrix_from_values_usize(profile, r, c, values) ==
    LET n == usize_mul(profile, r, c)
    IN IF ~n.ok THEN Outcome("panic", NoMatrix)
       ELSE IF n.value # Len(values) THEN Outcome("err", NoMatrix)
       ELSE Outcome("ok", Built([i \in 1..Len(values) |-> values[i]], r, c))

\* ---------------------------------------------------------------------- state
VARIABLES
    backend,    \* which matrix type is built
    prio,       \* its MemoryPriority
    ctor,       \* the constructor called: "new", "from_values", "with_values"
    argS,       \* the const S of a Stacktrix (R * C for the other backends)
    argR,       \* the rows argument / const R
    argC,       \* the cols argument / const C
    data,       \* the caller's slice (or array) handed to the constructor
    phase,      \* "input" before the constructor ran, then "live" or "failed"
    inner,      \* the matrix buffer
    rows,       \* the matrix's rows
    cols,       \* the matrix's cols
    ops,        \* number of operations called on the matrix
    last        \* the last operation: its arguments, its outcome, the buffer before it

vars == << backend, prio, ctor, argS, argR, argC, data, phase, inner, rows, cols, ops, last >>

self == [inner |-> inner, rows |-> rows, cols |-> cols]

NoRef == [ok |-> FALSE, off |-> 0]
Call(op, row, col, idx, values, f, panicked, ref, view) ==
    [op |-> op, row |-> row, col |-> col, idx |-> idx, values |-> values, f |-> f,
     panicked |-> panicked, ref |-> ref, view |-> view, pre |-> inner, lines |-> << >>]
\* The call of an iterator: the line views it yielded are recorded as well.
IterCall(op, k, idx, values, run, ref, view) ==
    [Call(op, k, Len(run.views), idx, values, "none", run.panicked, ref, view)
        EXCEPT !.lines = run.views]
NoCall ==
    [op |-> "none", row |-> 0, col |-> 0, idx |-> 0, values |-> << >>, f |-> "none",
     panicked |-> FALSE, ref |-> NoRef, view |-> PanicView, pre |-> << >>, lines |-> << >>]

Ctors(b) ==
    CASE b = "Matrix" -> {"new", "from_values"}
      [] b = "Reftrix" -> {"from_values"}
      [] b = "Stacktrix" -> {"from_values", "with_values"}

Init ==
    /\ backend \in Backends
    /\ prio \in Prios
    /\ ctor \in Ctors(backend)
    /\ argR \in Dims
    /\ argC \in Dims
    /\ argR * argC <= MaxCells
    /\ argS \in IF backend = "Stacktrix" THEN Lens ELSE {argR * argC}
    /\ \E n \in Lens :
          /\ ctor = "with_values" => n = argS
          /\ ctor = "new" => n = 0
          /\ data = Iota(n)
    /\ phase = "input"
    /\ inner = << >>
    /\ rows = 0
    /\ cols = 0
    /\ ops = 0
    /\ last = NoCall

Constructed ==
    CASE ctor = "new" -> Matrix_new(InitValue, argR, argC)
      [] ctor = "with_values" -> Stacktrix_with_values(argS, argR, argC, data)
      [] ctor = "from_values" /\ backend = "Matrix" -> Matrix_from_values(argR, argC, data)
      [] ctor = "from_values" /\ backend = "Reftrix" -> Reftrix_from_values(argR, argC, data)
      [] ctor = "from_values" /\ backend = "Stacktrix" ->
            Stacktrix_from_values(argS, argR, argC, data)

\* No backend writes through to the caller's data.
Alias_Detached(buf) == data

\* Every backend writes through to the caller's data.
Alias_Shared(buf) == buf

\* A Reftrix borrows the caller's slice: its buffer is the caller's data.
Alias(buf) == IF backend = "Reftrix" THEN buf ELSE data

Construct ==
    /\ phase = "input"
    /\ LET mx == Constructed IN
          /\ phase' = IF mx.ok THEN "live" ELSE "failed"
          /\ inner' = mx.inner
          /\ rows' = mx.rows
          /\ cols' = mx.cols
    /\ UNCHANGED << backend, prio, ctor, argS, argR, argC, data, ops, last >>

Ready == phase = "live" /\ ops < MaxOps

Frame == UNCHANGED << backend, prio, ctor, argS, argR, argC, phase, rows, cols >>

Insert ==
    /\ Ready
    /\ \E row \in 0..rows, col \in 0..cols :
          LET res == insert(backend, prio, self, row, col, InsertValue) IN
             /\ inner' = res.inner
             /\ data' = Alias(res.inner)
             /\ last' = Call("insert", row, col, 0, << InsertValue >>, "none", ~res.ok,
                             get_mut(backend, prio, self, row, col), PanicView)
    /\ ops' = ops + 1
    /\ Frame

\* get hands out a reference through which the element is overwritten.
Get_Writes ==
    /\ Ready
    /\ \E row \in 0..rows, col \in 0..cols :
          LET ref == get(backend, prio, self, row, col) IN
             /\ inner' = WriteRef(inner, ref, InsertValue).inner
             /\ data' = Alias(WriteRef(inner, ref, InsertValue).inner)
             /\ last' = Call("get", row, col, 0, << >>, "none", ~ref.ok, ref, PanicView)
    /\ ops' = ops + 1
    /\ Frame

Get ==
    /\ Ready
    /\ \E row \in 0..rows, col \in 0..cols :
          LET ref == get(backend, prio, self, row, col) IN
             last' = Call("get", row, col, 0, << >>, "none", ~ref.ok, ref, PanicView)
    /\ ops' = ops + 1
    /\ UNCHANGED << inner, data >>
    /\ Frame

\* *m.get_mut(row, col) = value: get_mut and an assignment through the reference.
GetMut ==
    /\ Ready
    /\ \E row \in 0..rows, col \in 0..cols :
          LET ref == get_mut(backend, prio, self, row, col)
              res == WriteRef(inner, ref, InsertValue)
          IN /\ inner' = res.inner
             /\ data' = Alias(res.inner)
             /\ last' = Call("get_mut", row, col, 0, << InsertValue >>, "none", ~ref.ok, ref,
                             PanicView)
    /\ ops' = ops + 1
    /\ Frame

FillRow ==
    /\ Ready
    /\ \E row \in 0..rows, n \in {rows, cols, cols + 1} :
          LET res == fill_row(backend, prio, self, row, FillData(n)) IN
             /\ inner' = res.inner
             /\ data' = Alias(res.inner)
             /\ last' = Call("fill_row", row, 0, 0, FillData(n), "none", ~res.ok, NoRef, PanicView)
    /\ ops' = ops + 1
    /\ Frame

FillCol ==
    /\ Ready
    /\ \E col \in 0..cols, n \in {rows, cols, rows + 1} :
          LET res == fill_col(backend, prio, self, col, FillData(n)) IN
             /\ inner' = res.inner
             /\ data' = Alias(res.inner)
             /\ last' = Call("fill_col", 0, col, 0, FillData(n), "none", ~res.ok, NoRef, PanicView)
    /\ ops' = ops + 1
    /\ Frame

ApplyAll ==
    /\ Ready
    /\ \E f \in Funcs :
          /\ inner' = apply_all(self, f)
          /\ data' = Alias(apply_all(self, f))
          /\ last' = Call("apply_all", 0, 0, 0, iter_mut_for_each(inner, f, 0).order, f, FALSE,
                          NoRef, PanicView)
    /\ ops' = ops + 1
    /\ Frame

\* get_row / get_column and their mutable variants: the view is recorded.
GetLine ==
    /\ Ready
    /\ \E op \in {"get_row", "get_mut_row"}, row \in 0..rows :
          LET view == IF op = "get_row" THEN get_row(backend, prio, self, row)
                      ELSE get_mut_row(backend, prio, self, row)
          IN last' = Call(op, row, 0, 0, << >>, "none", ~view.ok, NoRef, view)
    /\ ops' = ops + 1
    /\ UNCHANGED << inner, data >>
    /\ Frame

GetColumnLine ==
    /\ Ready
    /\ \E op \in {"get_column", "get_mut_column"}, col \in 0..cols :
          LET view == IF op = "get_column" THEN get_column(backend, prio, self, col)
                      ELSE get_mut_column(backend, prio, self, col)
          IN last' = Call(op, 0, col, 0, << >>, "none", ~view.ok, NoRef, view)
    /\ ops' = ops + 1
    /\ UNCHANGED << inner, data >>
    /\ Frame

\* m.get_mut_row(row)[idx] = value / m.get_mut_column(col)[idx] = value.
LineWrite ==
    /\ Ready
    /\ \E op \in {"row_write", "col_write"}, line \in 0..MaxDim, idx \in 0..MaxDim :
          LET view == IF op = "row_write" THEN get_mut_row(backend, prio, self, line)
                      ELSE get_mut_column(backend, prio, self, line)
              ref == Index(view, idx)
              res == WriteRef(inner, ref, InsertValue)
          IN /\ line <= (IF op = "row_write" THEN rows ELSE cols)
             /\ idx <= (IF op = "row_write" THEN cols ELSE rows)
             /\ inner' = res.inner
             /\ data' = Alias(res.inner)
             /\ last' = Call(op, IF op = "row_write" THEN line ELSE 0,
                             IF op = "col_write" THEN line ELSE 0, idx, << InsertValue >>,
                             "none", ~res.ok, ref, view)
    /\ ops' = ops + 1
    /\ Frame

\* swap(a, b) on the strided mutable view of the foreign axis: a row of a
\* ColumnPrio matrix, a column of a RowPrio matrix.
Swap ==
    /\ Ready
    /\ \E line \in 0..MaxDim, a \in 0..MaxDim, b \in 0..MaxDim :
          LET view == IF prio = "ColumnPrio" THEN get_mut_row(backend, prio, self, line)
                      ELSE get_mut_column(backend, prio, self, line)
              res == swap(inner, view, a, b)
          IN /\ view.ok
             /\ a <= view.len /\ b <= view.len
             /\ inner' = res.inner
             /\ data' = Alias(res.inner)
             /\ last' = Call("swap", a, b, line, << >>, "none", ~res.ok, NoRef, view)
    /\ ops' = ops + 1
    /\ Frame

\* for line in m.rows_mut() / m.cols_mut(): the iterator is run to its end and
\* one element of one yielded view is assigned (k = 0: none is).
IterMut ==
    /\ Ready
    /\ \E op \in {"rows_mut", "cols_mut"}, k \in 0..MaxDim, idx \in 0..MaxDim :
          LET run == IF op = "rows_mut" THEN rows_mut(backend, prio, self)
                     ELSE cols_mut(backend, prio, self)
              view == IF k >= 1 /\ k <= Len(run.views) THEN run.views[k] ELSE PanicView
              ref == Index(view, idx)
              res == IF k = 0 THEN OkBuf(inner) ELSE WriteRef(inner, ref, InsertValue)
          IN /\ ~run.diverges
             /\ k <= Len(run.views)
             /\ IF k = 0 THEN idx = 0 ELSE idx < view.len
             /\ inner' = res.inner
             /\ data' = Alias(res.inner)
             /\ last' = IterCall(op, k, idx, IF k = 0 THEN << >> ELSE << InsertValue >>,
                                 run, ref, view)
    /\ ops' = ops + 1
    /\ Frame

\* for line in m.rows() / m.cols(): the iterator is run to its end.
Iter ==
    /\ Ready
    /\ \E op \in {"rows", "cols"} :
          LET run == IF op = "rows" THEN iter_rows(backend, prio, self)
                     ELSE iter_cols(backend, prio, self)
          IN /\ ~run.diverges
             /\ last' = IterCall(op, 0, 0, << >>, run, NoRef, PanicView)
    /\ ops' = ops + 1
    /\ UNCHANGED << inner, data >>
    /\ Frame

\* for line in m.rows_mut() / m.cols_mut() { for (i, el) in
\* line.into_iter().enumerate() { *el += i } }
IterMutEnumerate ==
    /\ Ready
    /\ \E op \in {"rows_mut_add", "cols_mut_add"} :
          LET run == IF op = "rows_mut_add" THEN rows_mut(backend, prio, self)
                     ELSE cols_mut(backend, prio, self)
              res == ForEachLine(inner, run.views, 1)
          IN /\ ~run.diverges
             /\ inner' = res
             /\ data' = Alias(res)
             /\ last' = IterCall(op, 0, 0, << >>, run, NoRef, PanicView)
    /\ ops' = ops + 1
    /\ Frame

\* m.get_row(row)[idx] / m.get_column(col)[idx]: a read through the immutable view.
LineRead ==
    /\ Ready
    /\ \E op \in {"row_read", "col_read"}, line \in 0..MaxDim, idx \in 0..MaxDim :
          LET view == IF op = "row_read" THEN get_row(backend, prio, self, line)
                      ELSE get_column(backend, prio, self, line)
              ref == Index(view, idx)
          IN /\ line <= (IF op = "row_read" THEN rows ELSE cols)
             /\ idx <= (IF op = "row_read" THEN cols ELSE rows)
             /\ last' = Call(op, IF op = "row_read" THEN line ELSE 0,
                             IF op = "col_read" THEN line ELSE 0, idx, << >>,
                             "none", ~ref.ok, ref, view)
    /\ ops' = ops + 1
    /\ UNCHANGED << inner, data >>
    /\ Frame

\* for el in m.get_row(r) / m.get_mut_row(r) (ColumnPrio), m.get_column(c) /
\* m.get_mut_column(c) (RowPrio): the strided view's iterator is called until
\* it is exhausted and ExtraCalls times more.
LineIterate ==
    /\ Ready
    /\ \E mutable \in BOOLEAN, line \in 0..MaxDim :
          LET view == IF prio = "ColumnPrio"
                      THEN (IF mutable THEN get_mut_row(backend, prio, self, line)
                            ELSE get_row(backend, prio, self, line))
                      ELSE (IF mutable THEN get_mut_column(backend, prio, self, line)
                            ELSE get_column(backend, prio, self, line))
              used == Consume(mutable, view, 0, view.len + ExtraCalls)
          IN /\ view.ok
             /\ last' = Call(IF mutable THEN "into_iter_mut" ELSE "into_iter",
                             IF prio = "ColumnPrio" THEN line ELSE 0,
                             IF prio = "RowPrio" THEN line ELSE 0,
                             used.index, used.items, "none", FALSE, NoRef, view)
    /\ ops' = ops + 1
    /\ UNCHANGED << inner, data >>
    /\ Frame

\* m.pretty_print(): the rendered lines are recorded.
PrettyPrint ==
    /\ Ready
    /\ LET out == pretty_print(backend, prio, self)
       IN last' = [Call("pretty_print", 0, 0, 0, << >>, "none", ~out.ok, NoRef, PanicView)
                      EXCEPT !.lines = out.lines]
    /\ ops' = ops + 1
    /\ UNCHANGED << inner, data >>
    /\ Frame

\* format!("{}", err) on the MatrixError a failed Matrix::from_values returned:
\* one more fmt call is entered; fmt calls write_fmt(format_args!("{self}")),
\* which enters fmt for the same value.  last.idx is the depth of fmt calls.
DisplayFmt ==
    /\ phase = "failed" /\ backend = "Matrix" /\ ctor = "from_values"
    /\ last.op \in {"none", "fmt"}
    /\ last.idx < MaxFmtDepth
    /\ last' = Call("fmt", 0, 0, last.idx + 1, << >>, "none", FALSE, NoRef, PanicView)
    /\ UNCHANGED << inner, data, ops >>
    /\ Frame

Next ==
    \/ Construct
    \/ Insert
    \/ Get
    \/ GetMut
    \/ FillRow
    \/ FillCol
    \/ ApplyAll
    \/ GetLine
    \/ GetColumnLine
    \/ LineWrite
    \/ Swap
    \/ IterMut
    \/ Iter
    \/ IterMutEnumerate
    \/ LineRead
    \/ LineIterate
    \/ PrettyPrint
    \/ DisplayFmt

Spec == Init /\ [][Next]_vars

\* ------------------------------------------- the constructors on machine words
\* The heap Matrix constructed with arguments anywhere in usize (WordBits wide),
\* under either build profile.  last.f records the profile, last.op the outcome.
InitWord ==
    /\ backend = "Matrix"
    /\ prio \in Prios
    /\ ctor \in {"new", "from_values"}
    /\ argR \in 0..(Word - 1)
    /\ argC \in 0..(Word - 1)
    /\ argS = 0
    /\ \E n \in 0..MaxCells :
          /\ ctor = "new" => n = 0
          /\ data = Iota(n)
    /\ phase = "input"
    /\ inner = << >>
    /\ rows = 0
    /\ cols = 0
    /\ ops = 0
    /\ last = NoCall

ConstructWord(out, profile) ==
    /\ phase' = IF out.result = "ok" THEN "live" ELSE "failed"
    /\ inner' = out.mx.inner
    /\ rows' = out.mx.rows
    /\ cols' = out.mx.cols
    /\ last' = Call(out.result, 0, 0, 0, << >>, profile, out.result = "panic", NoRef, PanicView)
    /\ UNCHANGED << backend, prio, ctor, argS, argR, argC, data, ops >>

NewWord ==
    /\ phase = "input" /\ ctor = "new"
    /\ \E profile \in Profiles :
          ConstructWord(Matrix_new_usize(profile, InitValue, argR, argC), profile)

FromValuesWord ==
    /\ phase = "input" /\ ctor = "from_values"
    /\ \E profile \in Profiles :
          ConstructWord(Matrix_from_values_usize(profile, argR, argC, data), profile)

NextWord ==
    \/ NewWord
    \/ FromValuesWord

SpecWord == InitWord /\ [][NextWord]_vars

\* ===================================================================== claims
\* The offset the data model assigns to (r, c): r * cols + c under RowPrio,
\* c * rows + r under ColumnPrio.
LayoutOffset(p, r, c) == IF p = "RowPrio" THEN r * cols + c ELSE c * rows + r

InBounds == last.row < rows /\ last.col < cols

\* The element a reference denotes, when it lies inside the buffer.
Deref(buf, ref) == IF ref.ok /\ ref.off < Len(buf) THEN << buf[ref.off + 1] >> ELSE << >>

\* C1: on a heap Matrix built by from_values, get(r, c) as the first operation
\* returns data[r * cols + c] under RowPrio and data[c * rows + r] under
\* ColumnPrio, for every r < rows and c < cols.
C1_HeapGetReadsLayoutOffset ==
    (/\ backend = "Matrix" /\ ctor = "from_values" /\ phase = "live"
     /\ ops = 1 /\ last.op = "get" /\ InBounds)
    => /\ ~last.panicked
       /\ Deref(inner, last.ref) = << data[LayoutOffset(prio, last.row, last.col) + 1] >>

C1_Witness ==
    /\ backend = "Matrix" /\ ctor = "from_values" /\ phase = "live" /\ prio = "ColumnPrio"
    /\ rows = 2 /\ cols = 3
    /\ ops = 1 /\ last.op = "get" /\ last.row = 1 /\ last.col = 2
    /\ ~last.panicked /\ Deref(inner, last.ref) = << 6 >>

\* C2: on a Stacktrix<S, R, C, ColumnPrio> built by from_values, square or not,
\* get(r, c) as the first operation returns data[c * R + r] for r < R, c < C.
C2_StackColumnPrioGet ==
    (/\ backend = "Stacktrix" /\ ctor = "from_values" /\ prio = "ColumnPrio" /\ phase = "live"
     /\ ops = 1 /\ last.op = "get" /\ InBounds)
    => /\ ~last.panicked
       /\ Deref(inner, last.ref) = << data[last.col * argR + last.row + 1] >>

\* C3: after insert(r, c, v) with r < rows and c < cols, get(r, c) returns v and
\* every other buffer position holds its previous value, on every backend and
\* layout.
C3_InsertThenGet ==
    (phase = "live" /\ last.op = "insert" /\ InBounds)
    => /\ ~last.panicked
       /\ LET ref == get(backend, prio, self, last.row, last.col) IN
             /\ Deref(inner, ref) = last.values
             /\ \A i \in 1..Len(inner) : i # ref.off + 1 => inner[i] = last.pre[i]

\* The elements a view yields, in order (empty when it leaves the buffer).
Yield(buf, view) ==
    IF view.ok /\ \A k \in 1..view.len : ViewOffsets(view)[k] < Len(buf)
    THEN [k \in 1..view.len |-> buf[ViewOffsets(view)[k] + 1]]
    ELSE << >>

\* C4: after a successful fill_row(r, data) with data.len() = cols, get_row(r)
\* yields exactly data and every element outside row r is unchanged; likewise
\* fill_col(c, data) with data.len() = rows and get_column(c); on every backend
\* and layout, square or not.
C4_FillThenGetLine ==
    /\ (/\ phase = "live" /\ last.op = "fill_row" /\ ~last.panicked
        /\ last.row < rows /\ Len(last.values) = cols /\ cols >= 1)
       => /\ Yield(inner, get_row(backend, prio, self, last.row)) = last.values
          /\ \A r \in 0..(rows - 1), c \in 0..(cols - 1) :
                r # last.row =>
                  inner[LayoutOffset(prio, r, c) + 1] = last.pre[LayoutOffset(prio, r, c) + 1]
    /\ (/\ phase = "live" /\ last.op = "fill_col" /\ ~last.panicked
        /\ last.col < cols /\ Len(last.values) = rows /\ rows >= 1)
       => /\ Yield(inner, get_column(backend, prio, self, last.col)) = last.values
          /\ \A r \in 0..(rows - 1), c \in 0..(cols - 1) :
                c # last.col =>
                  inner[LayoutOffset(prio, r, c) + 1] = last.pre[LayoutOffset(prio, r, c) + 1]

\* C5: get, get_mut and insert panic whenever row >= rows or col >= cols, on
\* every backend and layout, and the buffer is unchanged.
C5_ElementAccessOutOfBounds ==
    (/\ phase = "live" /\ last.op \in {"get", "get_mut", "insert"}
     /\ (last.row >= rows \/ last.col >= cols))
    => last.panicked /\ inner = last.pre

\* C6: get_row / get_mut_row panic whenever row >= rows and get_column /
\* get_mut_column panic whenever col >= cols, on every backend and layout: no
\* line view is returned.
C6_LineAccessOutOfBounds ==
    /\ (phase = "live" /\ last.op \in {"get_row", "get_mut_row"} /\ last.row >= rows)
       => last.panicked /\ ~last.view.ok
    /\ (phase = "live" /\ last.op \in {"get_column", "get_mut_column"} /\ last.col >= cols)
       => last.panicked /\ ~last.view.ok

C6_Witness ==
    /\ phase = "live" /\ backend = "Matrix" /\ prio = "ColumnPrio" /\ rows = 2 /\ cols = 3
    /\ last.op = "get_mut_row" /\ last.row = 2 /\ last.panicked

\* C7: fill_row(row, data) panics if row >= rows or data.len() # cols, and
\* fill_col(col, data) panics if col >= cols or data.len() # rows, on every
\* backend and layout; a failing fill modifies no element.  Stated for the
\* matrices with at least one row and one column.
C7_FillRejects ==
    (phase = "live" /\ rows >= 1 /\ cols >= 1)
    => /\ (last.op = "fill_row" /\ (last.row >= rows \/ Len(last.values) # cols))
          => last.panicked /\ inner = last.pre
       /\ (last.op = "fill_col" /\ (last.col >= cols \/ Len(last.values) # rows))
          => last.panicked /\ inner = last.pre
       /\ (last.op \in {"fill_row", "fill_col"} /\ last.panicked)
          => inner = last.pre

Reach(view) == {ViewOffsets(view)[k] : k \in 1..view.len}

\* The number of lines on the axis an iterator walks, and the length of a line.
LineCount(op) == IF op \in {"rows", "rows_mut", "rows_mut_add"} THEN rows ELSE cols
LineLen(op) == IF op \in {"rows", "rows_mut", "rows_mut_add"} THEN cols ELSE rows

\* The offset of the k-th element (from 0) of line i (from 0) on the axis of op.
LineOffset(op, i, k) ==
    IF op \in {"rows", "rows_mut", "rows_mut_add"} THEN LayoutOffset(prio, i, k)
    ELSE LayoutOffset(prio, k, i)

\* C11: rows() yields exactly `rows` line views in ascending row order, the
\* i-th holding (i, 0), ..., (i, cols - 1) in column order; cols() yields exactly
\* `cols` views, the j-th holding (0, j), ..., (rows - 1, j); the views of either
\* iterator visit every buffer offset exactly once, under both layouts.
C11_ImmutableIteration ==
    (phase = "live" /\ last.op \in {"rows", "cols"})
    => /\ ~last.panicked
       /\ Len(last.lines) = LineCount(last.op)
       /\ \A i \in 1..Len(last.lines) :
             ViewOffsets(last.lines[i])
                = [k \in 1..LineLen(last.op) |-> LineOffset(last.op, i - 1, k - 1)]
       /\ \A o \in 0..(rows * cols - 1) :
             Cardinality({ik \in (1..Len(last.lines)) \X (1..LineLen(last.op)) :
                            /\ ik[2] <= last.lines[ik[1]].len
                            /\ ViewOffsets(last.lines[ik[1]])[ik[2]] = o}) = 1

\* C12: the views yielded by one rows_mut() or cols_mut() iteration reach
\* pairwise disjoint sets of buffer offsets, and together exactly the offsets
\* 0 .. rows * cols - 1, for the strided and for the contiguous iterator.
C12_MutableViewsDisjoint ==
    (phase = "live" /\ last.op \in {"rows_mut", "cols_mut", "rows_mut_add", "cols_mut_add"})
    => /\ \A i, j \in 1..Len(last.lines) :
             i # j => Reach(last.lines[i]) \cap Reach(last.lines[j]) = {}
       /\ UNION {Reach(last.lines[i]) : i \in 1..Len(last.lines)} = 0..(rows * cols - 1)

C12_Witness ==
    /\ phase = "live" /\ backend = "Matrix" /\ prio = "ColumnPrio" /\ rows = 2 /\ cols = 3
    /\ last.op = "rows_mut" /\ ~last.panicked /\ Len(last.lines) = 2
    /\ Reach(last.lines[1]) = {0, 2, 4} /\ Reach(last.lines[2]) = {1, 3, 5}

\* C13: on a column-major matrix, adding to each element its index within its
\* row while iterating rows_mut() makes offset c * rows + r hold old + c, and
\* adding its index within its column while iterating cols_mut() makes it hold
\* old + r, for every (r, c): every element is modified exactly once.
C13_EnumerateAdd ==
    (phase = "live" /\ prio = "ColumnPrio" /\ last.op \in {"rows_mut_add", "cols_mut_add"})
    => \A r \in 0..(rows - 1), c \in 0..(cols - 1) :
          inner[c * rows + r + 1]
             = last.pre[c * rows + r + 1] + (IF last.op = "rows_mut_add" THEN c ELSE r)

C13_Witness ==
    /\ phase = "live" /\ backend = "Matrix" /\ prio = "ColumnPrio" /\ ctor = "from_values"
    /\ rows = 2 /\ cols = 3
    /\ last.op = "rows_mut_add" /\ ~last.panicked
    /\ last.pre = << 1, 2, 3, 4, 5, 6 >> /\ inner = << 1, 2, 4, 5, 7, 8 >>

\* C14: apply_all(f) applies f to every buffer element exactly once, in
\* ascending buffer order, each application seeing only its element: identity
\* leaves the buffer unchanged, doubling doubles every element, and the
\* dimensions are unchanged, on every backend and layout.
C14_ApplyAll ==
    (phase = "live" /\ last.op = "apply_all")
    => /\ ~last.panicked
       /\ last.values = [i \in 1..Len(last.pre) |-> i - 1]
       /\ inner = [i \in 1..Len(last.pre) |-> ApplyFn(last.f, last.pre[i])]
       /\ last.f = "identity" => inner = last.pre
       /\ last.f = "double" => \A i \in 1..Len(last.pre) : inner[i] = 2 * last.pre[i]
       /\ rows = argR /\ cols = argC

C14_Witness ==
    /\ phase = "live" /\ backend = "Stacktrix" /\ prio = "RowPrio" /\ rows = 2 /\ cols = 3
    /\ last.op = "apply_all" /\ last.f = "double"
    /\ last.pre = << 1, 2, 3, 4, 5, 6 >> /\ inner = << 2, 4, 6, 8, 10, 12 >>

StridedAccess ==
    \/ prio = "ColumnPrio" /\ last.op \in {"row_read", "row_write"}
    \/ prio = "RowPrio" /\ last.op \in {"col_read", "col_write"}

\* C16: indexing a strided line view (Index of the immutable view, IndexMut of
\* the mutable one) with i < len addresses offset start + i * stride, counted
\* in elements; with i >= len it panics and no element is accessed.
C16_StridedIndex ==
    (phase = "live" /\ StridedAccess /\ last.view.ok)
    => IF last.idx < last.view.len
       THEN /\ ~last.panicked
            /\ last.ref.ok
            /\ last.ref.off = last.view.start + last.idx * last.view.slices
            /\ last.op \in {"row_read", "col_read"} => inner = last.pre
            /\ (last.op \in {"row_write", "col_write"} /\ last.ref.off < Len(last.pre))
               => inner = [last.pre EXCEPT ![last.ref.off + 1] = InsertValue]
       ELSE last.panicked /\ ~last.ref.ok /\ inner = last.pre

C16_Witness ==
    /\ phase = "live" /\ backend = "Matrix" /\ prio = "ColumnPrio" /\ rows = 2 /\ cols = 3
    /\ last.op = "row_write" /\ last.row = 1 /\ last.idx = 2
    /\ ~last.panicked /\ last.ref.off = 5 /\ inner[6] = InsertValue /\ last.pre[6] # InsertValue

\* C17: swap(a, b) on a mutable strided view with a < len and b < len exchanges
\* the elements at line indices a and b and leaves every other buffer element
\* unchanged (a = b leaves the buffer unchanged; the same swap applied again
\* restores the buffer); with a >= len or b >= len it panics and modifies nothing.
C17_Swap ==
    (phase = "live" /\ last.op = "swap")
    => LET view == last.view
           a == last.row
           b == last.col
           oa == view.start + a * view.slices
           ob == view.start + b * view.slices
       IN IF a < view.len /\ b < view.len
          THEN /\ ~last.panicked
               /\ inner = [i \in 1..Len(last.pre) |->
                             IF i = oa + 1 THEN last.pre[ob + 1]
                             ELSE IF i = ob + 1 THEN last.pre[oa + 1]
                             ELSE last.pre[i]]
               /\ a = b => inner = last.pre
               /\ swap(inner, view, a, b) = OkBuf(last.pre)
          ELSE last.panicked /\ inner = last.pre

C17_Witness ==
    /\ phase = "live" /\ backend = "Matrix" /\ prio = "ColumnPrio" /\ ctor = "from_values"
    /\ rows = 2 /\ cols = 3
    /\ last.op = "swap" /\ last.idx = 1 /\ last.row = 0 /\ last.col = 2 /\ ~last.panicked
    /\ last.pre = << 1, 2, 3, 4, 5, 6 >> /\ inner = << 1, 6, 3, 4, 5, 2 >>

\* The matrix the last operation was called on, of backend b.
Before == [inner |-> IF last.op = "none" THEN inner ELSE last.pre, rows |-> rows, cols |-> cols]

\* The buffer backend b holds after the last operation is applied to Before
\* (a panicking operation leaves the buffer as it was).
Replay(b) ==
    CASE last.op = "insert" ->
            insert(b, prio, Before, last.row, last.col, InsertValue).inner
      [] last.op = "fill_row" -> fill_row(b, prio, Before, last.row, last.values).inner
      [] last.op = "fill_col" -> fill_col(b, prio, Before, last.col, last.values).inner
      [] last.op = "apply_all" -> apply_all(Before, last.f)
      [] OTHER -> Before.inner

\* What get(r, c) returns on backend b after the last operation (<< >>: a panic).
GetAfter(b, r, c) ==
    LET buf == Replay(b)
    IN Deref(buf, get(b, prio, [inner |-> buf, rows |-> rows, cols |-> cols], r, c))

\* C18: for the same layout, dimensions and flat data, the Matrix, the Reftrix
\* and the Stacktrix return the same value from get(r, c) for every r < rows
\* and c < cols, right after construction and after the same insert, fill_row,
\* fill_col or apply_all applied to each.
C18_BackendsAgree ==
    (/\ phase = "live"
     /\ last.op \in {"none", "insert", "fill_row", "fill_col", "apply_all"})
    => \A b1 \in Backends, b2 \in Backends :
          \A r \in 0..(rows - 1), c \in 0..(cols - 1) :
             GetAfter(b1, r, c) = GetAfter(b2, r, c)

\* C19: every write through a Reftrix is a write to the caller's slice: after
\* any operation the caller's buffer at offset c * R + r (ColumnPrio) or
\* r * C + c (RowPrio) holds what get(r, c) returns, and an insert(r, c, v)
\* has set that element of the caller's buffer to v.
C19_ReftrixWritesCallerSlice ==
    (backend = "Reftrix" /\ phase = "live")
    => /\ data = inner
       /\ \A r \in 0..(rows - 1), c \in 0..(cols - 1) :
             Deref(inner, get(backend, prio, self, r, c))
                = << data[LayoutOffset(prio, r, c) + 1] >>
       /\ (last.op = "insert" /\ InBounds)
          => data = [last.pre EXCEPT ![LayoutOffset(prio, last.row, last.col) + 1] = InsertValue]

C19_Witness ==
    /\ backend = "Reftrix" /\ phase = "live" /\ prio = "RowPrio" /\ rows = 3 /\ cols = 3
    /\ last.op = "insert" /\ last.row = 2 /\ last.col = 1 /\ ~last.panicked
    /\ data = << 1, 2, 3, 4, 5, 6, 7, InsertValue, 9 >>

\* C20: Stacktrix::from_values and Matrix::from_values copy their input: no
\* later operation on the matrix changes an element of the slice it was
\* constructed from.
C20_FromValuesCopies ==
    (backend \in {"Matrix", "Stacktrix"} /\ ctor = "from_values" /\ phase = "live")
    => data = Iota(rows * cols)

C20_Witness ==
    /\ backend = "Stacktrix" /\ ctor = "from_values" /\ phase = "live"
    /\ prio = "ColumnPrio" /\ rows = 2 /\ cols = 3
    /\ last.op = "cols_mut_add"
    /\ inner # last.pre /\ data = << 1, 2, 3, 4, 5, 6 >>

\* C21: the native-axis accessor returns exactly the contiguous span of its
\* line: under RowPrio get_row(r) / get_mut_row(r) is buffer[r * cols ..
\* r * cols + cols), under ColumnPrio get_column(c) / get_mut_column(c) is
\* buffer[c * rows .. c * rows + rows), on every backend, square or not.
C21_NativeAxisSpan ==
    phase = "live"
    => /\ (prio = "RowPrio" /\ last.op \in {"get_row", "get_mut_row"} /\ last.row < rows)
          => last.view = View(last.row * cols, 1, cols)
       /\ (/\ prio = "ColumnPrio" /\ last.op \in {"get_column", "get_mut_column"}
           /\ last.col < cols)
          => last.view = View(last.col * rows, 1, rows)

\* Every index a view accepts addresses an offset inside the matrix buffer.
InsideBuffer(view) ==
    \A i \in 0..(view.len - 1) : view.start + i * view.slices < rows * cols

\* The operations that hand out one strided view (the foreign axis of the
\* layout), and the iterators that hand out strided views.
StridedLineOp ==
    \/ prio = "ColumnPrio"
       /\ last.op \in {"get_row", "get_mut_row", "row_read", "row_write", "swap"}
    \/ prio = "RowPrio"
       /\ last.op \in {"get_column", "get_mut_column", "col_read", "col_write", "swap"}
StridedIterOp ==
    \/ prio = "ColumnPrio" /\ last.op \in {"rows", "rows_mut", "rows_mut_add"}
    \/ prio = "RowPrio" /\ last.op \in {"cols", "cols_mut", "cols_mut_add"}

\* C22: on a matrix with rows, cols >= 1, every strided view handed out by
\* get_row, get_column, get_mut_row, get_mut_column or by the rows / cols /
\* rows_mut / cols_mut iterators addresses, for every index i < len, an offset
\* start + i * stride < rows * cols.
C22_StridedViewsInsideBuffer ==
    (phase = "live" /\ rows >= 1 /\ cols >= 1)
    => /\ (StridedLineOp /\ last.view.ok) => InsideBuffer(last.view)
       /\ StridedIterOp => \A n \in 1..Len(last.lines) : InsideBuffer(last.lines[n])

\* C23: in every reachable state of a heap Matrix, for r < rows and c < cols,
\* get(r, c), get_row(r)[c] and get_column(c)[r] denote the same buffer element;
\* get_row(r) has exactly cols elements and get_column(c) exactly rows.
C23_HeapAccessorsAgree ==
    (phase = "live" /\ backend = "Matrix")
    => \A r \in 0..(rows - 1), c \in 0..(cols - 1) :
          LET row == get_row(backend, prio, self, r)
              column == get_column(backend, prio, self, c)
              el == get(backend, prio, self, r, c)
          IN /\ el.ok /\ Index(row, c).ok /\ Index(column, r).ok
             /\ Index(row, c).off = el.off
             /\ Index(column, r).off = el.off
             /\ row.len = cols
             /\ column.len = rows

\* C24: consuming a strided line view (immutable or mutable) by iteration
\* yields exactly len elements, the k-th being the one index k addresses
\* (offset start + k * stride), then None on every later call; the cursor
\* never exceeds len.
C24_LineViewIteration ==
    (phase = "live" /\ last.op \in {"into_iter", "into_iter_mut"})
    => /\ Len(last.values) = last.view.len + ExtraCalls
       /\ \A k \in 1..Len(last.values) :
             IF k <= last.view.len
             THEN /\ Index(last.view, k - 1).ok
                  /\ last.values[k] = Index(last.view, k - 1).off
             ELSE last.values[k] = NoneItem
       /\ last.idx <= last.view.len
       /\ \A n \in 0..(last.view.len + ExtraCalls) :
             Consume(last.op = "into_iter_mut", last.view, 0, n).index <= last.view.len

C24_Witness ==
    /\ phase = "live" /\ backend = "Matrix" /\ prio = "ColumnPrio" /\ rows = 2 /\ cols = 3
    /\ last.op = "into_iter" /\ last.row = 1
    /\ last.values = << 1, 3, 5, NoneItem, NoneItem >> /\ last.idx = 3

\* What next() returns when it is called once more on the exhausted iterator
\* of the last operation.
NextAfterEnd ==
    LET n == Len(last.lines)
        mutable == last.op \in {"rows_mut", "cols_mut", "rows_mut_add", "cols_mut_add"}
    IN IF StridedIterOp
       THEN (IF mutable
             THEN IterMutIntermittentSlices_next(inner, LineCount(last.op), LineLen(last.op), n)
             ELSE IterIntermittentSlices_next(inner, LineCount(last.op), LineLen(last.op), n))
       ELSE (IF mutable THEN IterSlicesMut_next(inner, LineLen(last.op), n * LineLen(last.op))
             ELSE IterSlices_next(inner, LineLen(last.op), n * LineLen(last.op)))

\* C25: every line iterator terminates: on a matrix with rows, cols >= 1 it
\* returns Some exactly as many times as there are lines on its axis and None
\* on every later call, never panics, and never yields a view that starts at
\* or beyond the end of the buffer.
C25_LineIteratorsTerminate ==
    (phase = "live" /\ rows >= 1 /\ cols >= 1)
    => /\ ~iter_rows(backend, prio, self).diverges /\ ~iter_cols(backend, prio, self).diverges
       /\ ~rows_mut(backend, prio, self).diverges /\ ~cols_mut(backend, prio, self).diverges
       /\ last.op \in {"rows", "cols", "rows_mut", "cols_mut", "rows_mut_add", "cols_mut_add"}
          => /\ ~last.panicked
             /\ Len(last.lines) = LineCount(last.op)
             /\ \A n \in 1..Len(last.lines) : last.lines[n].start < Len(inner)
             /\ NextAfterEnd = Run(<< >>, FALSE, FALSE)

C25_Witness ==
    /\ phase = "live" /\ backend = "Matrix" /\ prio = "RowPrio" /\ rows = 2 /\ cols = 3
    /\ last.op = "cols" /\ ~last.panicked /\ Len(last.lines) = 3
    /\ last.lines[3] = View(2, 3, 2)

\* C26: on a heap Matrix with a zero dimension, rows() still yields exactly
\* `rows` line views and cols() exactly `cols`, each of its axis length, and no
\* call of next() panics.
C26_ZeroDimensionIteration ==
    (/\ phase = "live" /\ backend = "Matrix" /\ (rows = 0 \/ cols = 0)
     /\ last.op \in {"rows", "cols"})
    => /\ ~last.panicked
       /\ Len(last.lines) = LineCount(last.op)
       /\ \A n \in 1..Len(last.lines) : last.lines[n].len = LineLen(last.op)

\* The operations that read, or obtain a mutable view and do not write through it.
ReadOnlyOp ==
    \/ last.op \in {"get", "get_row", "get_column", "get_mut_row", "get_mut_column",
                    "rows", "cols", "row_read", "col_read", "into_iter"}
    \/ last.op \in {"rows_mut", "cols_mut"} /\ last.values = << >>

\* C27: read-only operations (get, get_row, get_column, rows(), cols(), and
\* obtaining a mutable view or iterator without writing through it) leave
\* every buffer element and both dimensions unchanged.
C27_ReadOnlyOperations ==
    (phase = "live" /\ ReadOnlyOp)
    => inner = last.pre /\ rows = argR /\ cols = argC

C27_Witness ==
    /\ phase = "live" /\ backend = "Matrix" /\ prio = "ColumnPrio" /\ ctor = "from_values"
    /\ rows = 2 /\ cols = 3
    /\ last.op = "get" /\ last.row = 1 /\ last.col = 2 /\ ~last.panicked
    /\ inner = << 1, 2, 3, 4, 5, 6 >> /\ last.pre = inner

\* C28: Matrix::from_values returns Ok only when the mathematical product
\* rows * cols equals data.len(), also when the usize product wraps; neither
\* it nor Matrix::new returns a matrix whose rows * cols differs from its
\* buffer length.
C28_NoWrappedDimensions ==
    phase = "live"
    => /\ Len(inner) = rows * cols
       /\ ctor = "from_values" => argR * argC = Len(data)

\* C29: pretty_print on a matrix with rows, cols >= 1 (column-major with any
\* number of rows, as well as row-major) completes without panicking, renders
\* exactly `rows` lines of `cols` elements each, and leaves the buffer unchanged.
C29_PrettyPrint ==
    (phase = "live" /\ rows >= 1 /\ cols >= 1 /\ last.op = "pretty_print")
    => /\ ~last.panicked
       /\ Len(last.lines) = rows
       /\ \A n \in 1..Len(last.lines) : last.lines[n].len = cols
       /\ inner = last.pre

\* C30: formatting a MatrixError with Display terminates: fmt writes a message
\* and returns without re-entering itself, so that no fmt call is ever nested
\* in another.
C30_DisplayTerminates ==
    last.op = "fmt" => last.idx <= 1

====
